---- MODULE Spec2Model ----
(***************************************************************************)
(* Model of server.py: the menu patcher that rewrites the object literal   *)
(* embedded in mock.js, and the flat-file reservation store.               *)
(*                                                                         *)
(* A text is a sequence of characters; a character is a one-character      *)
(* string.  Offsets are Python's: 0-based, end-exclusive.                  *)
(***************************************************************************)
EXTENDS Integers, Sequences, FiniteSets, TLC

(***************************************************************************)
(* Characters                                                              *)
(***************************************************************************)
QUOTE == "\""
BSLASH == "\\"
NL == "\n"
\* A lone UTF-16 surrogate code point (U+D800).  json.loads produces it from
\* the escape \ud800, json.dumps(ensure_ascii=False) emits it raw, and the
\* utf-8 codec refuses to encode it.
SUR == "U+D800"

Whitespace == {" ", "\n", "\t", "\r"}
Digits == <<"0", "1", "2", "3", "4", "5", "6", "7", "8", "9">>
DigitSet == {Digits[i] : i \in 1..10}

\* text[a:b]
Slice(text, a, b) == SubSeq(text, a + 1, b)

\* text[a:]
SliceFrom(text, a) == SubSeq(text, a + 1, Len(text))

\* text[i]
At(text, i) == text[i + 1]

\* text.startswith(sub, i)
StartsWith(text, sub, i) ==
    /\ i + Len(sub) <= Len(text)
    /\ Slice(text, i, i + Len(sub)) = sub

\* The lowest offset in i..last at which sub occurs in text, -1 for none.
RECURSIVE IndexIn(_, _, _, _)
IndexIn(text, sub, i, last) ==
    IF i > last THEN -1
    ELSE IF StartsWith(text, sub, i) THEN i
    ELSE IndexIn(text, sub, i + 1, last)

\* str.index(sub, start): the lowest offset >= start at which sub occurs;
\* -1 stands for the ValueError raised when there is none.
Index(text, sub, start) ==
    IndexIn(text, sub, start, Len(text) - Len(sub))

(***************************************************************************)
(* JSON values.  Every value carries all fields so that any two values can *)
(* be compared; the unused ones are empty.                                 *)
(***************************************************************************)
JNull == [t |-> "null", n |-> 0, s |-> <<>>, items |-> <<>>, kv |-> <<>>]
JBool(b) == [t |-> "bool", n |-> IF b THEN 1 ELSE 0, s |-> <<>>, items |-> <<>>, kv |-> <<>>]
JInt(i) == [t |-> "int", n |-> i, s |-> <<>>, items |-> <<>>, kv |-> <<>>]
JStr(str) == [t |-> "str", n |-> 0, s |-> str, items |-> <<>>, kv |-> <<>>]
JArr(xs) == [t |-> "arr", n |-> 0, s |-> <<>>, items |-> xs, kv |-> <<>>]
\* A dict: its (key, value) pairs in insertion order, keys distinct.
JObj(pairs) == [t |-> "obj", n |-> 0, s |-> <<>>, items |-> <<>>, kv |-> pairs]
KV(key, value) == [k |-> key, val |-> value]

\* key in d
HasKey(d, key) == \E i \in 1..Len(d.kv) : d.kv[i].k = key

\* d.get(key), JNull standing for None
Get(d, key) ==
    IF HasKey(d, key)
    THEN d.kv[CHOOSE i \in 1..Len(d.kv) : d.kv[i].k = key].val
    ELSE JNull

\* d[key] = value on a dict: an existing key keeps its place
SetKey(d, key, value) ==
    IF HasKey(d, key)
    THEN JObj([i \in 1..Len(d.kv) |->
                 IF d.kv[i].k = key THEN KV(key, value) ELSE d.kv[i]])
    ELSE JObj(Append(d.kv, KV(key, value)))

(***************************************************************************)
(* json.dumps(value, ensure_ascii=False, indent=2)                         *)
(***************************************************************************)
RECURSIVE IntToText(_)
IntToText(i) ==
    IF i < 0 THEN <<"-">> \o IntToText(0 - i)
    ELSE IF i < 10 THEN <<Digits[i + 1]>>
    ELSE IntToText(i \div 10) \o <<Digits[(i % 10) + 1]>>

\* The escapes of the encoder for the characters of the model.
EscapeChar(c) ==
    CASE c = QUOTE -> <<BSLASH, QUOTE>>
      [] c = BSLASH -> <<BSLASH, BSLASH>>
      [] c = "\n" -> <<BSLASH, "n">>
      [] c = "\t" -> <<BSLASH, "t">>
      [] c = "\r" -> <<BSLASH, "r">>
      [] OTHER -> <<c>>

RECURSIVE EscapeText(_)
EscapeText(str) ==
    IF str = <<>> THEN <<>>
    ELSE EscapeChar(Head(str)) \o EscapeText(Tail(str))

DumpsStr(str) == <<QUOTE>> \o EscapeText(str) \o <<QUOTE>>

RECURSIVE Spaces(_)
Spaces(k) == IF k = 0 THEN <<>> ELSE <<" ">> \o Spaces(k - 1)

IndentWidth == 2

RECURSIVE Dumps(_, _)
RECURSIVE DumpsItems(_, _, _)
RECURSIVE DumpsPairs(_, _, _)

\* The items of a list from position i on, one per line at nesting level lvl.
DumpsItems(xs, i, lvl) ==
    IF i > Len(xs) THEN <<>>
    ELSE (IF i > 1 THEN <<",">> ELSE <<>>)
         \o <<NL>> \o Spaces(IndentWidth * lvl)
         \o Dumps(xs[i], lvl)
         \o DumpsItems(xs, i + 1, lvl)

\* The members of a dict from position i on, one per line at nesting level lvl.
DumpsPairs(kv, i, lvl) ==
    IF i > Len(kv) THEN <<>>
    ELSE (IF i > 1 THEN <<",">> ELSE <<>>)
         \o <<NL>> \o Spaces(IndentWidth * lvl)
         \o DumpsStr(kv[i].k) \o <<":", " ">>
         \o Dumps(kv[i].val, lvl)
         \o DumpsPairs(kv, i + 1, lvl)

\* The text of value v whose own lines are indented lvl levels.
Dumps(v, lvl) ==
    CASE v.t = "null" -> <<"n", "u", "l", "l">>
      [] v.t = "bool" -> IF v.n = 1 THEN <<"t", "r", "u", "e">>
                         ELSE <<"f", "a", "l", "s", "e">>
      [] v.t = "int" -> IntToText(v.n)
      [] v.t = "str" -> DumpsStr(v.s)
      [] v.t = "arr" ->
            IF v.items = <<>> THEN <<"[", "]">>
            ELSE <<"[">> \o DumpsItems(v.items, 1, lvl + 1)
                 \o <<NL>> \o Spaces(IndentWidth * lvl) \o <<"]">>
      [] v.t = "obj" ->
            IF v.kv = <<>> THEN <<"{", "}">>
            ELSE <<"{">> \o DumpsPairs(v.kv, 1, lvl + 1)
                 \o <<NL>> \o Spaces(IndentWidth * lvl) \o <<"}">>

json_dumps(v) == Dumps(v, 0)

(***************************************************************************)
(* json.loads(text): a recursive-descent reading of the grammar over the   *)
(* characters of the model: objects, arrays, strings with the one-letter   *)
(* escapes, integers, true, false, null.  Fractions, exponents, \uXXXX and *)
(* NaN/Infinity never occur in the texts of the model.                     *)
(* A result is [ok, val, pos]: pos is the offset just past the value.      *)
(***************************************************************************)
Fail == [ok |-> FALSE, val |-> JNull, pos |-> 0]
Okay(v, p) == [ok |-> TRUE, val |-> v, pos |-> p]

\* The offset of the first non-whitespace character at or after i.
RECURSIVE SkipWs(_, _)
SkipWs(text, i) ==
    IF i < Len(text) /\ At(text, i) \in Whitespace
    THEN SkipWs(text, i + 1)
    ELSE i

\* The character an escape letter stands for; "" for an invalid escape.
Unescape(e) ==
    CASE e = QUOTE -> QUOTE
      [] e = BSLASH -> BSLASH
      [] e = "/" -> "/"
      [] e = "n" -> "\n"
      [] e = "t" -> "\t"
      [] e = "r" -> "\r"
      [] OTHER -> ""

\* The string whose opening quote is just before offset j; acc is what has
\* been read of it.  A raw control character ends the parse (strict mode).
RECURSIVE ScanString(_, _, _)
ScanString(text, j, acc) ==
    IF j >= Len(text) THEN Fail
    ELSE IF At(text, j) = QUOTE THEN Okay(JStr(acc), j + 1)
    ELSE IF At(text, j) = BSLASH
         THEN IF j + 1 >= Len(text) \/ Unescape(At(text, j + 1)) = ""
              THEN Fail
              ELSE ScanString(text, j + 2, Append(acc, Unescape(At(text, j + 1))))
    ELSE IF At(text, j) \in {"\n", "\t", "\r"} THEN Fail
    ELSE ScanString(text, j + 1, Append(acc, At(text, j)))

DigitValue(c) == (CHOOSE i \in 1..10 : Digits[i] = c) - 1

\* The offset just past the run of digits starting at i.
RECURSIVE DigitsEnd(_, _)
DigitsEnd(text, i) ==
    IF i < Len(text) /\ At(text, i) \in DigitSet
    THEN DigitsEnd(text, i + 1)
    ELSE i

RECURSIVE TextToNat(_)
TextToNat(ds) ==
    IF ds = <<>> THEN 0
    ELSE 10 * TextToNat(SubSeq(ds, 1, Len(ds) - 1)) + DigitValue(ds[Len(ds)])

\* 0|[1-9][0-9]* from offset d to offset e
DigitsResult(text, d, e) == Okay(JInt(TextToNat(Slice(text, d, e))), e)

ParseDigits(text, d) ==
    IF d >= Len(text) \/ At(text, d) \notin DigitSet THEN Fail
    ELSE IF At(text, d) = "0" THEN DigitsResult(text, d, d + 1)
    ELSE DigitsResult(text, d, DigitsEnd(text, d))

NegateResult(r) == IF r.ok THEN Okay(JInt(0 - r.val.n), r.pos) ELSE Fail

\* -?(0|[1-9][0-9]*) at offset i
ParseNumber(text, i) ==
    IF At(text, i) = "-"
    THEN NegateResult(ParseDigits(text, i + 1))
    ELSE ParseDigits(text, i)

RECURSIVE ParseValue(_, _)
RECURSIVE ParseMembers(_, _, _)
RECURSIVE ParseElements(_, _, _)

\* After a member at offset e: "}" ends the object, "," brings the next.
MembersNext(text, e, acc) ==
    IF e >= Len(text) THEN Fail
    ELSE IF At(text, e) = "}" THEN Okay(acc, e + 1)
    ELSE IF At(text, e) = "," THEN ParseMembers(text, SkipWs(text, e + 1), acc)
    ELSE Fail

\* The member's value v has been read: a repeated key keeps its place and
\* takes the later value.
MembersAfterValue(text, key, v, acc) ==
    IF ~v.ok THEN Fail
    ELSE MembersNext(text, SkipWs(text, v.pos), SetKey(acc, key, v.val))

\* The member's key has been read; c is the offset where ":" must stand.
MembersColon(text, key, c, acc) ==
    IF c >= Len(text) \/ At(text, c) # ":" THEN Fail
    ELSE MembersAfterValue(text, key, ParseValue(text, SkipWs(text, c + 1)), acc)

MembersAfterKey(text, key, acc) ==
    IF ~key.ok THEN Fail
    ELSE MembersColon(text, key.val.s, SkipWs(text, key.pos), acc)

\* The members of an object from offset j (a key's opening quote) on.
ParseMembers(text, j, acc) ==
    IF j >= Len(text) \/ At(text, j) # QUOTE THEN Fail
    ELSE MembersAfterKey(text, ScanString(text, j + 1, <<>>), acc)

\* After an element at offset e: "]" ends the array, "," brings the next.
ElementsNext(text, e, acc) ==
    IF e >= Len(text) THEN Fail
    ELSE IF At(text, e) = "]" THEN Okay(JArr(acc), e + 1)
    ELSE IF At(text, e) = "," THEN ParseElements(text, SkipWs(text, e + 1), acc)
    ELSE Fail

ElementsAfterValue(text, v, acc) ==
    IF ~v.ok THEN Fail
    ELSE ElementsNext(text, SkipWs(text, v.pos), Append(acc, v.val))

\* The elements of an array from offset j (a value's first character) on.
ParseElements(text, j, acc) ==
    ElementsAfterValue(text, ParseValue(text, j), acc)

\* An object whose "{" has been read; j is the offset of what follows it.
ParseObjectAt(text, j) ==
    IF j < Len(text) /\ At(text, j) = "}" THEN Okay(JObj(<<>>), j + 1)
    ELSE ParseMembers(text, j, JObj(<<>>))

\* An array whose "[" has been read; j is the offset of what follows it.
ParseArrayAt(text, j) ==
    IF j < Len(text) /\ At(text, j) = "]" THEN Okay(JArr(<<>>), j + 1)
    ELSE ParseElements(text, j, <<>>)

\* The value whose first character c is at offset i.
ParseValueAt(text, i, c) ==
    CASE c = QUOTE -> ScanString(text, i + 1, <<>>)
      [] c = "{" -> ParseObjectAt(text, SkipWs(text, i + 1))
      [] c = "[" -> ParseArrayAt(text, SkipWs(text, i + 1))
      [] c = "n" /\ StartsWith(text, <<"n", "u", "l", "l">>, i) ->
           Okay(JNull, i + 4)
      [] c = "t" /\ StartsWith(text, <<"t", "r", "u", "e">>, i) ->
           Okay(JBool(TRUE), i + 4)
      [] c = "f" /\ StartsWith(text, <<"f", "a", "l", "s", "e">>, i) ->
           Okay(JBool(FALSE), i + 5)
      [] c = "-" \/ c \in DigitSet -> ParseNumber(text, i)
      [] OTHER -> Fail

\* The value that starts at offset i.
ParseValue(text, i) ==
    IF i >= Len(text) THEN Fail ELSE ParseValueAt(text, i, At(text, i))

\* The value v has been read: only whitespace may follow it.
LoadsEnd(text, v) ==
    IF v.ok /\ SkipWs(text, v.pos) = Len(text) THEN v ELSE Fail

\* json.loads: one value with whitespace around it and nothing else;
\* ok = FALSE stands for JSONDecodeError.
json_loads(text) == LoadsEnd(text, ParseValue(text, SkipWs(text, 0)))

(***************************************************************************)
(* Files.  A file is absent or holds a text.                               *)
(***************************************************************************)
NoFile == [exists |-> FALSE, text |-> <<>>]
FileOf(text) == [exists |-> TRUE, text |-> text]

\* str.encode("utf-8") raises UnicodeEncodeError on a lone surrogate.
Encodable(text) == \A i \in 1..Len(text) : text[i] # SUR

\* Path.write_text(data, encoding="utf-8"): open(mode="w") truncates the
\* file, then the data is encoded and written.  When the encoding fails the
\* call raises and the file stays empty.
write_text(data) ==
    IF Encodable(data)
    THEN [err |-> "", file |-> FileOf(data)]
    ELSE [err |-> "UnicodeEncodeError", file |-> FileOf(<<>>)]

(***************************************************************************)
(* The menu patcher                                                        *)
(***************************************************************************)
marker ==
    <<"e", "x", "p", "o", "r", "t", " ", "c", "o", "n", "s", "t", " ",
      "m", "e", "n", "u", "D", "a", "t", "a", " ", "=">>

\* A scan that stops at the first "}" whatever the depth.
RECURSIVE ScanFirstClose(_, _, _)
ScanFirstClose(text, i, depth) ==
    IF i >= Len(text) THEN -1
    ELSE IF At(text, i) = "}" THEN i + 1
    ELSE ScanFirstClose(text, i + 1, depth)

\* The loop of _extract_menu_json from offset i at the given depth: the
\* offset just past the "}" that brings the depth to zero, -1 (None) when the
\* text ends first.
RECURSIVE ScanBraces(_, _, _)
ScanBraces(text, i, depth) ==
    IF i >= Len(text) THEN -1
    ELSE IF At(text, i) = "{" THEN ScanBraces(text, i + 1, depth + 1)
    ELSE IF At(text, i) = "}"
         THEN IF depth - 1 = 0 THEN i + 1
              ELSE ScanBraces(text, i + 1, depth - 1)
    ELSE ScanBraces(text, i + 1, depth)

ExtractError(e) == [err |-> e, data |-> JNull, start |-> 0, end |-> 0]

\* json.loads(text[brace_start:end_idx]) has run.
ExtractParsed(parsed, brace_start, end_idx) ==
    IF ~parsed.ok THEN ExtractError("json_decode")
    ELSE [err |-> "", data |-> parsed.val, start |-> brace_start, end |-> end_idx]

\* The loop over text[brace_start:] has ended with end_idx.
ExtractSpan(text, brace_start, end_idx) ==
    IF end_idx = -1 THEN ExtractError("close_not_found")
    ELSE ExtractParsed(json_loads(Slice(text, brace_start, end_idx)),
                       brace_start, end_idx)

\* text.index("{", marker_idx) has run.
ExtractFromBrace(text, brace_start) ==
    IF brace_start = -1 THEN ExtractError("brace_not_found")
    ELSE ExtractSpan(text, brace_start, ScanBraces(text, brace_start, 0))

\* text.index(marker) has run.
ExtractFromMarker(text, marker_idx) ==
    IF marker_idx = -1 THEN ExtractError("marker_not_found")
    ELSE ExtractFromBrace(text, Index(text, <<"{">>, marker_idx))

\* (data, start_idx, end_idx), or the exception raised: the three
\* ValueErrors of the function and json.loads' JSONDecodeError.
_extract_menu_json(text) == ExtractFromMarker(text, Index(text, marker, 0))

\* data, _, _ = _extract_menu_json(text)
ReadExtracted(e) == [err |-> e.err, data |-> e.data]

\* The menu, or the exception raised.
read_menu(file) ==
    IF ~file.exists THEN [err |-> "FileNotFoundError", data |-> JNull]
    ELSE ReadExtracted(_extract_menu_json(file.text))

\* The splice of write_menu with text[end + 1:] for text[end:].
SpliceSkip(file, e, new_menu) ==
    IF e.err # "" THEN [err |-> e.err, file |-> file]
    ELSE write_text(Slice(file.text, 0, e.start) \o json_dumps(new_menu)
                    \o SliceFrom(file.text, e.end + 1))

\* write_menu splicing one character too late: text[end + 1:]
write_menu_skip(file, new_menu) ==
    IF ~file.exists THEN [err |-> "FileNotFoundError", file |-> file]
    ELSE SpliceSkip(file, _extract_menu_json(file.text), new_menu)

\* _, start, end = _extract_menu_json(text) has run: the new text is
\* text[:start] + new_json_str + text[end:], and it is written.
Splice(file, e, new_menu) ==
    IF e.err # "" THEN [err |-> e.err, file |-> file]
    ELSE write_text(Slice(file.text, 0, e.start) \o json_dumps(new_menu)
                    \o SliceFrom(file.text, e.end))

\* The host file after the call and the exception raised ("" for none).
write_menu(file, new_menu) ==
    IF ~file.exists THEN [err |-> "FileNotFoundError", file |-> file]
    ELSE Splice(file, _extract_menu_json(file.text), new_menu)

TR == <<"t", "r">>
EN == <<"e", "n">>

(***************************************************************************)
(* The reservation store                                                   *)
(***************************************************************************)
\* The list taken from whatever parsed: no isinstance(data, list) check.
LoadedUnchecked(parsed) ==
    IF ~parsed.ok THEN <<>>
    ELSE IF parsed.val.t = "arr" THEN parsed.val.items
    ELSE <<parsed.val>>

\* A load that trusts whatever parses: no isinstance(data, list) check.
load_reservations_unchecked(file) ==
    IF ~file.exists THEN <<>>
    ELSE LoadedUnchecked(json_loads(file.text))

\* json.loads(raw) has run: [] when it raised and when the value is not a
\* list.
Loaded(parsed) ==
    IF ~parsed.ok THEN <<>>
    ELSE IF parsed.val.t # "arr" THEN <<>>
    ELSE parsed.val.items

\* The list in the file; [] when the file is absent, when reading or parsing
\* raises (every Exception of the try block is caught) and when the value is
\* not a list.
load_reservations(file) ==
    IF ~file.exists THEN <<>>
    ELSE Loaded(json_loads(file.text))

\* The file after the call and the exception raised ("" for none).
save_reservations(data) == write_text(json_dumps(JArr(data)))

K_name == <<"n", "a", "m", "e">>
K_phone == <<"p", "h", "o", "n", "e">>
K_people == <<"p", "e", "o", "p", "l", "e">>
K_date == <<"d", "a", "t", "e">>
K_time == <<"t", "i", "m", "e">>
K_type == <<"t", "y", "p", "e">>
K_note == <<"n", "o", "t", "e">>
K_id == <<"i", "d">>
K_created_at == <<"c", "r", "e", "a", "t", "e", "d", "_", "a", "t">>

\* The fields a Reservation cannot be built without.
RequiredFields == {K_name, K_people, K_date, K_time, K_type}

\* str(uuid.uuid4()): the k-th id generated.  Ids are opaque and never
\* repeat; which one comes k-th makes no difference to the store.
uuid4(k) == <<"u">> \o IntToText(k)

\* datetime.isoformat() of the k-th reading of the clock.
isoformat(k) == <<"T">> \o IntToText(k)

\* Reservation(**input.model_dump()).model_dump() with created_at replaced
\* by its isoformat(): the fields of ReservationBase in declaration order,
\* then id and created_at.
ReservationDoc(input, k) ==
    JObj(input.kv \o <<KV(K_id, JStr(uuid4(k))),
                       KV(K_created_at, JStr(isoformat(k)))>>)

\* data.insert(0, doc) in place of data.append(doc)
AddRecordFirst(data, doc) == <<doc>> \o data

\* data.append(doc)
AddRecord(data, doc) == Append(data, doc)

\* A filter that drops only the first record with the id.
RemoveFirstById(data, res_id) ==
    LET hits == {i \in 1..Len(data) : Get(data[i], K_id) = JStr(res_id)} IN
    IF hits = {} THEN data
    ELSE LET h == CHOOSE i \in hits : \A j \in hits : i <= j IN
         SubSeq(data, 1, h - 1) \o SubSeq(data, h + 1, Len(data))

\* [r for r in data if r.get("id") != res_id]; the items are dicts, as the
\* return type of load_reservations declares.
RemoveById(data, res_id) ==
    SelectSeq(data, LAMBDA r : Get(r, K_id) # JStr(res_id))

(***************************************************************************)
(* Bounded inputs of the menu endpoints                                    *)
(***************************************************************************)
\* The longest string value of an enumerated menu.
MaxStrLen == 1

\* The characters of the enumerated string values: a letter, the two braces
\* and a lone surrogate.
StrAlphabet == {"a", "{", "}", SUR}

RECURSIVE Strings(_)
Strings(n) ==
    IF n = 0 THEN {<<>>}
    ELSE LET shorter == Strings(n - 1) IN
         shorter \cup {Append(str, c) : str \in shorter, c \in StrAlphabet}

\* Request bodies of PUT /api/menu: every {"tr": <string>}, and objects with
\* nesting, several keys, escapes, and without "tr"/"en".
ExtraMenus ==
    { JObj(<<>>),
      JObj(<<KV(<<"x">>, JInt(1))>>),
      JObj(<<KV(EN, JObj(<<KV(<<"b">>, JInt(1))>>))>>),
      JObj(<<KV(TR, JStr(<<"a", QUOTE>>)), KV(EN, JArr(<<JNull, JBool(TRUE)>>))>>),
      JObj(<<KV(TR, JStr(<<"{">>)), KV(EN, JStr(<<"}">>))>>),
      JObj(<<KV(TR, JStr(<<"{", "}">>))>>),
      JObj(<<KV(TR, JStr(<<"}", "{">>))>>) }

Menus == {JObj(<<KV(TR, JStr(str))>>) : str \in Strings(MaxStrLen)} \cup ExtraMenus

\* Contents of mock.js before the first request.
HostDocs ==
    { JObj(<<>>),
      JObj(<<KV(TR, JStr(<<"a">>))>>),
      JObj(<<KV(TR, JObj(<<KV(<<"b">>, JInt(1))>>))>>),
      JObj(<<KV(TR, JStr(<<"{">>))>>),
      JObj(<<KV(TR, JStr(<<"}">>))>>) }

Front(text) == SubSeq(text, 1, Len(text) - 1)

CompactNested ==
    <<"{", QUOTE, "t", "r", QUOTE, ":", "{", QUOTE, "b", QUOTE, ":", "1", "}", "}">>

HostPrefixes == {<<>>, <<"/", "/", "{", "\n">>}
\* What stands in the marker's place in a file without it.
NoMarkers == {<<>>, SubSeq(marker, 1, 12)}
HostBodies ==
    {json_dumps(d) : d \in HostDocs}
    \cup {Front(json_dumps(d)) : d \in HostDocs}
    \cup {CompactNested, <<"{", "a", "}">>, <<>>}
HostSuffixes ==
    { <<>>,
      <<";", "\n">>,
      <<";", "\n">> \o marker \o <<" ", "{", "}", ";">>,
      <<";", "}">> }

HostTexts ==
    {p \o marker \o <<" ">> \o b \o x :
        p \in HostPrefixes, b \in HostBodies, x \in HostSuffixes}
    \cup {p \o m \o <<" ">> \o b \o <<";", "\n">> :
             p \in HostPrefixes, m \in NoMarkers,
             b \in {CompactNested, <<>>}}

(***************************************************************************)
(* State                                                                   *)
(***************************************************************************)
VARIABLES
    mockFile,   \* MOCK_FILE
    resFile,    \* RES_FILE
    result,     \* the response of the last request
    tracked,    \* history: the menu the host file should hold
    live,       \* history: the reservations created and not deleted
    issued,     \* how many ids uuid4 has produced
    wk          \* the requests in progress in each worker process

vars == <<mockFile, resFile, result, tracked, live, issued, wk>>

Response(op, status, detail, arg, data) ==
    [op |-> op, status |-> status, detail |-> detail, arg |-> arg, data |-> data]

NoResponse == Response("none", 0, "", JNull, JNull)

\* The worker processes that serve requests side by side.
Workers == {1, 2}
Idle == [pc |-> "idle", data |-> <<>>, doc |-> JNull, status |-> 0]
IdleWorkers == [w \in Workers |-> Idle]

(***************************************************************************)
(* Menu endpoints                                                          *)
(***************************************************************************)
\* The history once a request has failed: the claim about sequences of
\* successful updates no longer speaks of the run.
Untracked == [valid |-> FALSE, menu |-> JNull]

\* GET /api/menu
get_menu ==
    \E r \in {read_menu(mockFile)} :
        /\ result' = Response("get_menu", IF r.err = "" THEN 200 ELSE 500,
                              r.err, JNull, r.data)
        /\ UNCHANGED <<mockFile, resFile, tracked, live, issued, wk>>

\* PUT /api/menu
update_menu(new_menu) ==
    IF ~HasKey(new_menu, TR) /\ ~HasKey(new_menu, EN)
    THEN /\ result' = Response("update_menu", 400, "invalid_format", new_menu, JNull)
         /\ tracked' = Untracked
         /\ UNCHANGED <<mockFile, resFile, live, issued, wk>>
    ELSE \E w \in {write_menu(mockFile, new_menu)} :
         /\ mockFile' = w.file
         /\ result' = Response("update_menu", IF w.err = "" THEN 200 ELSE 500,
                               w.err, new_menu, JNull)
         /\ tracked' = IF w.err = ""
                       THEN [tracked EXCEPT !.menu = new_menu]
                       ELSE Untracked
         /\ UNCHANGED <<resFile, live, issued, wk>>

InitMenu ==
    /\ mockFile \in {NoFile} \cup {FileOf(t) : t \in HostTexts}
    /\ resFile = NoFile
    /\ result = NoResponse
    /\ \E r \in {read_menu(mockFile)} :
          tracked = IF r.err = "" THEN [valid |-> TRUE, menu |-> r.data]
                    ELSE Untracked
    /\ live = <<>>
    /\ issued = 0
    /\ wk = IdleWorkers

NextMenu ==
    \/ get_menu
    \/ \E new_menu \in Menus : update_menu(new_menu)

SpecMenu == InitMenu /\ [][NextMenu]_vars

(***************************************************************************)
(* Properties of the menu patcher                                          *)
(***************************************************************************)
HasMarker(text) == \E i \in 0..(Len(text) - Len(marker)) : StartsWith(text, marker, i)

\* The number of "{" minus the number of "}" in text[a:b].
BraceDepth(text, a, b) ==
    Cardinality({i \in a..(b - 1) : At(text, i) = "{"})
    - Cardinality({i \in a..(b - 1) : At(text, i) = "}"})

RECURSIVE NoBraces(_)
\* No string of the value, key or value, holds a brace.
NoBraces(v) ==
    /\ \A i \in 1..Len(v.s) : v.s[i] \notin {"{", "}"}
    /\ \A i \in 1..Len(v.items) : NoBraces(v.items[i])
    /\ \A i \in 1..Len(v.kv) :
          /\ \A j \in 1..Len(v.kv[i].k) : v.kv[i].k[j] \notin {"{", "}"}
          /\ NoBraces(v.kv[i].val)

\* The documents of the model whose strings hold no brace.
BraceFreeDocs == {m \in Menus \cup HostDocs : NoBraces(m)}

\* C1: after write_menu has replaced the embedded object with D, extracting
\* from the host file succeeds and returns data equal to D, whatever the
\* string values of D.
C1_RoundTrip ==
    (result.op = "update_menu" /\ result.status = 200) =>
        \A e \in {_extract_menu_json(mockFile.text)} :
            e.err = "" /\ e.data = result.arg

\* C2: a successful write_menu leaves text[0:start] (the marker included)
\* and text[end:] of the host file as they were and puts the serialization
\* of the new menu between them.
C2_OffsetPreservation ==
    [][(result'.op = "update_menu" /\ result'.status = 200) =>
          /\ mockFile.exists /\ mockFile'.exists
          /\ \A e \in {_extract_menu_json(mockFile.text)} :
             \A old \in {mockFile.text} : \A new \in {mockFile'.text} :
             \A tail \in {Len(old) - e.end} :
                /\ e.err = ""
                /\ Len(new) >= e.start + tail
                /\ Slice(new, 0, e.start) = Slice(old, 0, e.start)
                /\ SliceFrom(new, Len(new) - tail) = SliceFrom(old, e.end)
                /\ Slice(new, e.start, Len(new) - tail) = json_dumps(result'.arg)
                /\ Index(new, marker, 0) = Index(old, marker, 0)
                /\ Index(new, marker, 0) + Len(marker) <= e.start]_vars

\* C2 witness: an update succeeded on a host file with text before the
\* marker and, after the object, a tail that holds the marker again.
C2_Witness ==
    /\ result.op = "update_menu" /\ result.status = 200
    /\ \E e \in {_extract_menu_json(mockFile.text)} :
          /\ e.err = ""
          /\ Index(mockFile.text, marker, 0) > 0
          /\ Index(mockFile.text, marker, e.end) # -1

\* C3: the span _extract_menu_json returns starts at the first "{" at or
\* after the first marker and ends just past the first "}" at which the brace
\* depth is back to zero; an embedded object without braces in its strings
\* is returned whole however it nests; later markers play no part.
C3_DepthCorrectness ==
    mockFile.exists =>
        \A text \in {mockFile.text} : \A e \in {_extract_menu_json(text)} :
            /\ e.err = "" =>
                /\ \E mi \in 0..e.start :
                      /\ StartsWith(text, marker, mi)
                      /\ \A j \in 0..(mi - 1) : ~StartsWith(text, marker, j)
                      /\ \A j \in mi..(e.start - 1) : At(text, j) # "{"
                /\ At(text, e.start) = "{"
                /\ At(text, e.end - 1) = "}"
                /\ BraceDepth(text, e.start, e.end) = 0
                /\ \A j \in (e.start + 1)..(e.end - 1) :
                      BraceDepth(text, e.start, j) > 0
            /\ HasMarker(text) =>
                \A b \in {Index(text, <<"{">>, Index(text, marker, 0))} :
                \A d \in BraceFreeDocs :
                    (b # -1 /\ StartsWith(text, json_dumps(d), b))
                    => /\ e.err = "" /\ e.data = d
                       /\ e.start = b /\ e.end = b + Len(json_dumps(d))

\* C3 witness: GET /api/menu returned an object with an inner "}" from a
\* host file that holds the marker a second time.
C3_Witness ==
    /\ result.op = "get_menu" /\ result.status = 200
    /\ \E e \in {_extract_menu_json(mockFile.text)} :
          /\ e.err = ""
          /\ \E j \in (e.start + 1)..(e.end - 2) : At(mockFile.text, j) = "}"
          /\ Index(mockFile.text, marker, e.end) # -1

\* The text ends inside the object that follows the marker: it is the
\* serialization of a document without its final "}".
Truncated(text) ==
    /\ HasMarker(text)
    /\ \E b \in {Index(text, <<"{">>, Index(text, marker, 0))} :
          /\ b # -1
          /\ \E d \in HostDocs : SliceFrom(text, b) = Front(json_dumps(d))

\* C4: a text without the marker and a text without "{" after the marker
\* fail with a not-found error; a text whose object lacks its final "}"
\* fails with the unbalanced-braces error.
C4_ExtractErrors ==
    mockFile.exists =>
        \A text \in {mockFile.text} : \A e \in {_extract_menu_json(text)} :
            /\ ~HasMarker(text) => e.err = "marker_not_found"
            /\ (HasMarker(text)
                  /\ \A j \in Index(text, marker, 0)..(Len(text) - 1) :
                        At(text, j) # "{")
               => e.err = "brace_not_found"
            /\ Truncated(text) => e.err = "close_not_found"

\* C9: as long as every update_menu since a well-formed host file has
\* succeeded, extract on the host file succeeds and returns the menu written
\* last.
C9_HostStaysWellFormed ==
    tracked.valid =>
        /\ mockFile.exists
        /\ \A e \in {_extract_menu_json(mockFile.text)} :
              e.err = "" /\ e.data = tracked.menu

\* C10: an update_menu that ends in an error leaves the host file as it was.
C10_FailedUpdateUnchanged ==
    [][(result'.op = "update_menu" /\ result'.status # 200) =>
          mockFile' = mockFile]_vars

(***************************************************************************)
(* Bounded inputs of the reservation endpoints                             *)
(***************************************************************************)
\* The number of reservations created in a run.
MaxCreates == 2

\* input.model_dump() of a ReservationCreate
Input(name, phone, people, type, note) ==
    JObj(<<KV(K_name, JStr(name)), KV(K_phone, phone),
           KV(K_people, JInt(people)), KV(K_date, JStr(<<"D">>)),
           KV(K_time, JStr(<<"9">>)), KV(K_type, JStr(type)),
           KV(K_note, note)>>)

InputA == Input(<<"A">>, JNull, 2, <<"y">>, JNull)
InputB == Input(<<"B">>, JStr(<<"5">>), 10, <<"k">>, JStr(<<"}", QUOTE>>))
Inputs == {InputA, InputB}

\* Records of a store file written before the run.
Stored(input, id) ==
    JObj(input.kv \o <<KV(K_id, JStr(id)),
                       KV(K_created_at, JStr(<<"T", "0">>))>>)
Rx1 == Stored(InputA, <<"x">>)
Rx2 == Stored(InputB, <<"x">>)
Ry == Stored(InputA, <<"y">>)
\* A record without id and created_at, and one without the required fields.
Rnoid == InputB
Rbare == JObj(<<KV(K_id, JStr(<<"y">>))>>)

InitStores ==
    { <<>>, <<Rx1, Ry, Rx2>>, <<Rnoid, Rx1>>, <<Rbare>> }

\* File contents that are not JSON, and JSON that is not an array.
NotJsonTexts == { <<>>, <<"[", "{">> }
NotArrayTexts ==
    { <<QUOTE, "n", "o", "t", " ", "a", " ", "l", "i", "s", "t", QUOTE>>,
      json_dumps(Rx1) }

InitResFiles ==
    {NoFile}
    \cup {FileOf(t) : t \in NotJsonTexts \cup NotArrayTexts}
    \cup {FileOf(json_dumps(JArr(l))) : l \in InitStores}

DeleteIds == {<<"x">>, <<"y">>, <<"z">>} \cup {uuid4(k) : k \in 1..MaxCreates}

(***************************************************************************)
(* Reservation endpoints                                                   *)
(***************************************************************************)
\* The record carries the id.
HasId(r, id) == \E i \in 1..Len(r.kv) : r.kv[i] = KV(K_id, JStr(id))

\* GET /api/reservations
list_reservations ==
    \E raw_list \in {load_reservations(resFile)} :
        /\ result' = IF \A i \in 1..Len(raw_list) :
                           \A f \in RequiredFields : HasKey(raw_list[i], f)
                     THEN Response("list_reservations", 200, "", JNull, JArr(raw_list))
                     ELSE Response("list_reservations", 500, "ValidationError",
                                   JNull, JNull)
        /\ UNCHANGED <<mockFile, resFile, tracked, live, issued, wk>>

\* POST /api/reservations
create_reservation(input) ==
    /\ issued < MaxCreates
    /\ \E res_obj \in {ReservationDoc(input, issued + 1)} :
       \E w \in {save_reservations(AddRecord(load_reservations(resFile), res_obj))} :
           /\ resFile' = w.file
           /\ result' = Response("create_reservation",
                                 IF w.err = "" THEN 200 ELSE 500,
                                 w.err, input, res_obj)
           /\ live' = IF w.err = "" THEN Append(live, res_obj) ELSE live
    /\ issued' = issued + 1
    /\ UNCHANGED <<mockFile, tracked, wk>>

\* DELETE /api/reservations/{res_id}
delete_reservation(res_id) ==
    \E data \in {load_reservations(resFile)} :
    \E new_data \in {RemoveById(data, res_id)} :
        IF Len(new_data) = Len(data)
        THEN /\ result' = Response("delete_reservation", 404, "not_found",
                                   JStr(res_id), JNull)
             /\ UNCHANGED <<mockFile, resFile, tracked, live, issued, wk>>
        ELSE \E w \in {save_reservations(new_data)} :
             /\ resFile' = w.file
             /\ result' = Response("delete_reservation",
                                   IF w.err = "" THEN 200 ELSE 500,
                                   w.err, JStr(res_id), JStr(res_id))
             /\ live' = SelectSeq(live, LAMBDA r : ~HasId(r, res_id))
             /\ UNCHANGED <<mockFile, tracked, issued, wk>>

InitStore ==
    /\ mockFile = NoFile
    /\ resFile \in InitResFiles
    /\ result = NoResponse
    /\ tracked = Untracked
    /\ live = load_reservations(resFile)
    /\ issued = 0
    /\ wk = IdleWorkers

NextStore ==
    \/ list_reservations
    \/ \E input \in Inputs : create_reservation(input)
    \/ \E res_id \in DeleteIds : delete_reservation(res_id)

SpecStore == InitStore /\ [][NextStore]_vars

(***************************************************************************)
(* Two POST /api/reservations requests served side by side.  The handler   *)
(* takes no lock: between its read of the file and its write of the file   *)
(* another worker process may read or write the file.                      *)
(***************************************************************************)
\* A save that reads the file again and adds the record to what it finds.
create_save_reload(w) ==
    /\ wk[w].pc = "loaded"
    /\ \E s \in {save_reservations(AddRecord(load_reservations(resFile), wk[w].doc))} :
       /\ resFile' = s.file
       /\ wk' = [wk EXCEPT ![w].pc = "saved",
                           ![w].status = IF s.err = "" THEN 200 ELSE 500]
    /\ UNCHANGED <<mockFile, result, tracked, live, issued>>

\* create_reservation up to data.append(doc): the record is built and the
\* file is read.
create_load(w, input) ==
    /\ wk[w].pc = "idle"
    /\ \E res_obj \in {ReservationDoc(input, issued + 1)} :
       wk' = [wk EXCEPT ![w] = [pc |-> "loaded",
                                data |-> AddRecord(load_reservations(resFile), res_obj),
                                doc |-> res_obj,
                                status |-> 0]]
    /\ issued' = issued + 1
    /\ UNCHANGED <<mockFile, resFile, result, tracked, live>>

\* save_reservations(data)
create_save(w) ==
    /\ wk[w].pc = "loaded"
    /\ \E s \in {save_reservations(wk[w].data)} :
       /\ resFile' = s.file
       /\ wk' = [wk EXCEPT ![w].pc = "saved",
                           ![w].status = IF s.err = "" THEN 200 ELSE 500]
    /\ UNCHANGED <<mockFile, result, tracked, live, issued>>

\* return res_obj
create_return(w) ==
    /\ wk[w].pc = "saved"
    /\ wk' = [wk EXCEPT ![w].pc = "done"]
    /\ result' = Response("create_reservation", wk[w].status, "", JNull, wk[w].doc)
    /\ UNCHANGED <<mockFile, resFile, tracked, live, issued>>

InitConc ==
    /\ mockFile = NoFile
    /\ resFile \in InitResFiles
    /\ result = NoResponse
    /\ tracked = Untracked
    /\ live = <<>>
    /\ issued = 0
    /\ wk = IdleWorkers

NextConc ==
    \E w \in Workers :
        \/ \E input \in Inputs : create_load(w, input)
        \/ create_save(w)
        \/ create_return(w)

SpecConc == InitConc /\ [][NextConc]_vars

(***************************************************************************)
(* Properties of the reservation store                                     *)
(***************************************************************************)
\* A store file that is absent, is not JSON, or is JSON but not an array.
BadStore(file) ==
    \/ ~file.exists
    \/ file.text \in NotJsonTexts
    \/ file.text \in NotArrayTexts

\* C5: on an absent file, on content that is not JSON and on JSON that is not
\* an array, load_reservations returns the empty list: the listing answers
\* 200 with [] and the file is left as it was.
C5_LoadNeverFails ==
    [][(result'.op = "list_reservations" /\ BadStore(resFile)) =>
          /\ load_reservations(resFile) = <<>>
          /\ result'.status = 200
          /\ result'.data = JArr(<<>>)
          /\ resFile' = resFile]_vars

\* C5 witness: the store was listed while the file held JSON that is not an
\* array.
C5_Witness ==
    /\ result.op = "list_reservations" /\ result.status = 200
    /\ resFile.exists /\ resFile.text \in NotArrayTexts

\* The records of data without those that carry the id, the order kept.
RECURSIVE Without(_, _)
Without(data, id) ==
    IF data = <<>> THEN <<>>
    ELSE IF HasId(Head(data), id) THEN Without(Tail(data), id)
    ELSE <<Head(data)>> \o Without(Tail(data), id)

\* C6: delete_reservation removes every record with the id and keeps the
\* others in order, answering 200; when no record has the id it answers 404
\* and leaves the file as it was, so that once an id is deleted no record
\* with it is left for a second delete.
C6_DeleteById ==
    [][result'.op = "delete_reservation" =>
          \A before \in {load_reservations(resFile)} :
          \A after \in {load_reservations(resFile')} :
          \A id \in {result'.arg.s} :
              IF \E i \in 1..Len(before) : HasId(before[i], id)
              THEN /\ result'.status = 200
                   /\ after = Without(before, id)
                   /\ \A i \in 1..Len(after) : ~HasId(after[i], id)
                   /\ Len(after) < Len(before)
              ELSE /\ result'.status = 404
                   /\ resFile' = resFile]_vars

\* C6 witness: a delete removed two records with the same id from between
\* records it kept.
C6_Witness ==
    /\ result.op = "delete_reservation" /\ result.status = 200
    /\ result.arg = JStr(<<"x">>)
    /\ load_reservations(resFile) = <<Ry>>

\* C7: the store holds the records created and not deleted, in creation
\* order; create_reservation adds one record at the end, with a generated id
\* and created_at and the supplied fields, and leaves the earlier ones alone.
C7_AppendOrder ==
    [][\A after \in {load_reservations(resFile')} :
          /\ after = live'
          /\ result'.op = "create_reservation" =>
                \A before \in {load_reservations(resFile)} :
                \A doc \in {after[Len(after)]} :
                \A input \in {result'.arg} :
                    /\ result'.status = 200
                    /\ Len(after) = Len(before) + 1
                    /\ SubSeq(after, 1, Len(before)) = before
                    /\ doc = result'.data
                    /\ Get(doc, K_id).t = "str" /\ Get(doc, K_id).s # <<>>
                    /\ Get(doc, K_created_at).t = "str"
                    /\ Get(doc, K_created_at).s # <<>>
                    /\ \A i \in 1..Len(input.kv) :
                          Get(doc, input.kv[i].k) = input.kv[i].val]_vars

\* C7 witness: a second record was created after a first one and after a
\* delete had removed a record written before the run.
C7_Witness ==
    /\ result.op = "create_reservation" /\ result.status = 200
    /\ issued = 2
    /\ Len(live) = 3
    /\ live[1] = Rnoid
    /\ HasId(live[2], uuid4(1))
    /\ live[3] = result.data
    /\ load_reservations(resFile) = live

====
